---- MODULE Spec2Model ----
(***************************************************************************)
(* Model of packages/backend-plugin-api/src/services/system/types.ts:      *)
(* createServiceRef (service tokens) and createServiceFactory (the factory *)
(* declaration builder and the descriptors it returns).                    *)
(*                                                                         *)
(* JavaScript objects are functions from property names to values, so      *)
(* that "key in obj" is a test on DOMAIN.  The value undefined is          *)
(* "undefined" where the property holds a string and UndefinedObject       *)
(* where it holds an object.                                               *)
(* Objects live in heaps (sequences); a reference is an index.             *)
(***************************************************************************)
EXTENDS Integers, Sequences, FiniteSets, TLC

VARIABLES
    refs,        \* heap of service tokens returned by createServiceRef
    refArgs,     \* refArgs[i]: the options object refs[i] was created from
    lastRead,    \* the last property read of a token and how it ended
    decls,       \* heap of declarations handed to createServiceFactory
    builders,    \* heap of builder functions returned by createServiceFactory
    descs,       \* heap of descriptors returned by builder invocations
    invocations, \* history of builder invocations: builder, options, outcome
    evals,       \* history of evaluations of a parameterized declaration
    calls,       \* history of calls of the declaration's own functions
    promises,    \* heap of promises returned by the descriptor's wrappers
    syncThrow,   \* whether the last wrapper call threw synchronously
    rootContext, \* resolution engine: the single-flight root-context slot
    pc,          \* resolution engine: per owning plugin, its position
    instances    \* resolution engine: per owning plugin, what it was given

vars == <<refs, refArgs, lastRead, decls, builders, descs, invocations, evals,
          calls, promises, syncThrow, rootContext, pc, instances>>

refVars     == <<refs, refArgs, lastRead>>
builderVars == <<decls, builders, descs, invocations, evals>>
callVars    == <<calls, promises, syncThrow>>
engineVars  == <<rootContext, pc, instances>>

----------------------------------------------------------------------------
(* Bounds *)

MaxRefs == 3
MaxReads == 2

----------------------------------------------------------------------------
(* JavaScript values *)

Undefined == "undefined"
UndefinedObject == [undefined |-> TRUE]

\* obj.key where the property holds a string
GetStr(obj, key) == IF key \in DOMAIN obj THEN obj[key] ELSE Undefined

\* obj.key where the property holds an object
GetObj(obj, key) == IF key \in DOMAIN obj THEN obj[key] ELSE UndefinedObject

----------------------------------------------------------------------------
(* createServiceRef *)

Ids == {"db", "logger"}
Scopes == {"root", "plugin"}

\* ServiceRefOptions: id is required, scope and defaultFactory are optional
RefOptions ==
    {[id |-> i] : i \in Ids}
    \cup {[id |-> "db", scope |-> s] : s \in Scopes}
    \cup {[id |-> "logger", defaultFactory |-> "function"]}

\* toString() of the token created from options
RefToString(options) == "serviceRef{" \o options.id \o "}"

createServiceRefDefaultRoot(options) ==
    [id |-> options.id,
     scope |-> IF "scope" \in DOMAIN options THEN options.scope ELSE "root",
     T |-> "getter",
     toString |-> RefToString(options),
     __defaultFactory |-> GetStr(options, "defaultFactory")]
    @@ ("$$type" :> "@backstage/ServiceRef")

\* const { id, scope = 'plugin', defaultFactory } = options; return {...}
createServiceRef(options) ==
    [id |-> options.id,
     scope |-> IF "scope" \in DOMAIN options THEN options.scope ELSE "plugin",
     T |-> "getter",
     toString |-> RefToString(options),
     __defaultFactory |-> GetStr(options, "defaultFactory")]
    @@ ("$$type" :> "@backstage/ServiceRef")

RefFields == {"id", "scope", "T", "$$type"}

\* token[field]: T is an accessor whose getter throws, the rest are data
ReadProperty(token, field) ==
    IF field = "T"
    THEN [threw |-> TRUE,
          value |-> "tried to read ServiceRef.T of " \o token.toString]
    ELSE [threw |-> FALSE, value |-> token[field]]

NoRead == [ref |-> 0, field |-> "none", threw |-> FALSE, value |-> "none", n |-> 0]

CreateServiceRef(options) ==
    /\ Len(refs) < MaxRefs
    /\ refs' = Append(refs, createServiceRef(options))
    /\ refArgs' = Append(refArgs, options)
    /\ UNCHANGED <<lastRead, builderVars, callVars, engineVars>>

\* user code reads a property of a token it holds
ReadRef(r, field) ==
    /\ lastRead.n < MaxReads
    /\ LET res == ReadProperty(refs[r], field)
       IN lastRead' = [ref |-> r, field |-> field, threw |-> res.threw,
                       value |-> res.value, n |-> lastRead.n + 1]
    /\ UNCHANGED <<refs, refArgs, builderVars, callVars, engineVars>>

----------------------------------------------------------------------------
(* Declarations handed to createServiceFactory *)

EmptyObject == [k \in {} |-> Undefined]

\* the two tokens the declarations refer to: refs[RootRef] and refs[PluginRef]
RootRef == 1
PluginRef == 2
BaseRefs == <<createServiceRef([id |-> "db", scope |-> "root"]),
              createServiceRef([id |-> "logger"])>>
BaseRefArgs == <<[id |-> "db", scope |-> "root"], [id |-> "logger"]>>

\* deps: { [name in string]: ServiceRef<unknown> }, a map from names to tokens
DepMaps == {EmptyObject, [a |-> RootRef], [a |-> PluginRef]}

\* RootServiceFactoryOptions | PluginServiceFactoryOptions as they arrive at
\* run time: every property may be absent, createRootContext may be present
\* with the value undefined (it is declared optional)
Configs ==
    {s @@ d @@ i @@ r @@ [factory |-> "function"] :
        s \in {EmptyObject} \cup {[service |-> t] : t \in {RootRef, PluginRef}},
        d \in {EmptyObject} \cup {[deps |-> m] : m \in DepMaps},
        i \in {EmptyObject} \cup {[initialization |-> v] : v \in {"always", "lazy"}},
        r \in {EmptyObject}
              \cup {[createRootContext |-> v] : v \in {"function", Undefined}}}

\* TOpts: what the caller passes to the builder
Options == {UndefinedObject, [initialization |-> "always"]}

\* the body of a parameterized declaration: o => ({ ...conf, ...o })
OptionsFunction(conf, o) == IF o = UndefinedObject THEN conf ELSE o @@ conf

----------------------------------------------------------------------------
(* createServiceFactory *)

MaxBuilders == 2
MaxInvocations == 2

\* typeof options === 'function' ? options : () => options
configCallbackOf(decl) ==
    IF decl.kind = "function" THEN "options" ELSE "() => options"

\* createServiceFactory(options): the builder function it returns
createServiceFactory(d) ==
    [decl |-> d, configCallback |-> configCallbackOf(decls[d])]
    @@ ("$$type" :> "@backstage/BackendFeatureFactory")

\* a builder that evaluates the declaration on its first invocation only
ConfigCallbackCached(builder, o) ==
    LET earlier == {i \in 1..Len(invocations) : builders[invocations[i].builder] = builder}
        first == IF earlier = {} THEN o
                 ELSE invocations[CHOOSE i \in earlier : \A j \in earlier : i <= j].options
    IN IF builder.configCallback = "options"
       THEN [value |-> OptionsFunction(decls[builder.decl].conf, first),
             evals |-> IF earlier = {} THEN <<[decl |-> builder.decl, options |-> o]>>
                       ELSE <<>>]
       ELSE [value |-> decls[builder.decl].conf, evals |-> <<>>]

\* a builder that evaluates the declaration without the caller's options
ConfigCallbackNoOptions(builder, o) ==
    IF builder.configCallback = "options"
    THEN [value |-> OptionsFunction(decls[builder.decl].conf, UndefinedObject),
          evals |-> <<[decl |-> builder.decl, options |-> UndefinedObject]>>]
    ELSE [value |-> decls[builder.decl].conf, evals |-> <<>>]

\* configCallback(o): the configuration it returns, and the evaluations of
\* the declaration function it makes (none for a fixed declaration)
ConfigCallback(builder, o) ==
    IF builder.configCallback = "options"
    THEN [value |-> OptionsFunction(decls[builder.decl].conf, o),
          evals |-> <<[decl |-> builder.decl, options |-> o]>>]
    ELSE [value |-> decls[builder.decl].conf, evals |-> <<>>]

\* a root branch that fills in the scope's default strategy
RootDescriptorDefaultAlways(c) ==
    [version |-> "v1",
     service |-> c.service,
     initialization |-> IF "initialization" \in DOMAIN c THEN c.initialization ELSE "always",
     deps |-> GetObj(c, "deps"),
     factory |-> [wrapper |-> "async (deps) => c.factory(deps)", c |-> c]]
    @@ ("$$type" :> "@backstage/BackendFeature")

\* the descriptor of the root branch
RootDescriptor(c) ==
    [version |-> "v1",
     service |-> c.service,
     initialization |-> GetStr(c, "initialization"),
     deps |-> GetObj(c, "deps"),
     factory |-> [wrapper |-> "async (deps) => c.factory(deps)", c |-> c]]
    @@ ("$$type" :> "@backstage/BackendFeature")

\* ...('createRootContext' in c ? { createRootContext: async ... } : {})
RootContextPart(c) ==
    IF "createRootContext" \in DOMAIN c
    THEN [createRootContext |->
            [wrapper |-> "async (deps) => c?.createRootContext?.(deps)", c |-> c]]
    ELSE EmptyObject

\* a plugin branch that fills in the scope's default strategy
PluginDescriptorDefaultLazy(c) ==
    [version |-> "v1",
     service |-> c.service,
     initialization |-> IF "initialization" \in DOMAIN c THEN c.initialization ELSE "lazy",
     deps |-> GetObj(c, "deps"),
     factory |-> [wrapper |-> "async (deps, ctx) => c.factory(deps, ctx)", c |-> c]]
    @@ RootContextPart(c)
    @@ ("$$type" :> "@backstage/BackendFeature")

\* the descriptor of the plugin branch
PluginDescriptor(c) ==
    [version |-> "v1",
     service |-> c.service,
     initialization |-> GetStr(c, "initialization"),
     deps |-> GetObj(c, "deps"),
     factory |-> [wrapper |-> "async (deps, ctx) => c.factory(deps, ctx)", c |-> c]]
    @@ RootContextPart(c)
    @@ ("$$type" :> "@backstage/BackendFeature")

Threw(error) == [threw |-> TRUE, error |-> error, value |-> UndefinedObject]
Returned(value) == [threw |-> FALSE, error |-> "none", value |-> value]

\* the inner function factory(o), after anyConf = configCallback(o);
\* anyConf.service.scope throws a TypeError when anyConf.service is undefined
BuilderFactory(anyConf) ==
    IF "service" \notin DOMAIN anyConf
    THEN Threw("TypeError")
    ELSE IF refs[anyConf.service].scope = "root"
         THEN Returned(RootDescriptor(anyConf))
         ELSE Returned(PluginDescriptor(anyConf))

CreateServiceFactory(d) ==
    /\ Len(builders) < MaxBuilders
    /\ builders' = Append(builders, createServiceFactory(d))
    /\ UNCHANGED <<refVars, decls, descs, invocations, evals, callVars, engineVars>>

\* builder(o)
Invoke(b, o) ==
    /\ Len(invocations) < MaxInvocations
    /\ LET anyConf == ConfigCallback(builders[b], o)
           res == BuilderFactory(anyConf.value)
       IN /\ evals' = evals \o anyConf.evals
          /\ descs' = IF res.threw THEN descs ELSE Append(descs, res.value)
          /\ invocations' = Append(invocations,
                [builder |-> b, options |-> o, threw |-> res.threw,
                 error |-> res.error,
                 desc |-> IF res.threw THEN 0 ELSE Len(descs) + 1])
    /\ UNCHANGED <<refVars, decls, builders, callVars, engineVars>>

----------------------------------------------------------------------------
(* The descriptor's wrappers: factory and createRootContext *)

MaxCalls == 2

\* what the resolution engine passes: the resolved dependency map, the context
ResolvedDeps == {EmptyObject, [a |-> "instanceOfA"]}
Contexts == {Undefined, "sharedStream"}

\* what a function of the declaration does when called: it returns a value,
\* throws, or returns a promise that is later fulfilled or rejected
Behaviours ==
    {[kind |-> k, value |-> "result"] : k \in {"return", "resolve"}}
    \cup {[kind |-> k, value |-> "error"] : k \in {"throw", "reject"}}

\* async (deps: TDeps) => c.factory(deps): the calls of c's functions it makes
RootFactoryWrapper(c, deps, ctx) ==
    <<[fn |-> "factory", args |-> <<deps>>]>>

\* async (deps: TDeps, ctx: TContext) => c.factory(deps, ctx)
PluginFactoryWrapper(c, deps, ctx) ==
    <<[fn |-> "factory", args |-> <<deps, ctx>>]>>

\* a wrapper that builds the context twice
CreateRootContextWrapperTwice(c, deps) ==
    IF GetStr(c, "createRootContext") = "function"
    THEN <<[fn |-> "createRootContext", args |-> <<deps>>],
           [fn |-> "createRootContext", args |-> <<deps>>]>>
    ELSE <<>>

\* async (deps: TDeps) => c?.createRootContext?.(deps)
CreateRootContextWrapper(c, deps) ==
    IF GetStr(c, "createRootContext") = "function"
    THEN <<[fn |-> "createRootContext", args |-> <<deps>>]>>
    ELSE <<>>

NoPromise == [state |-> "none", value |-> "none"]
Settled(state, value) == [state |-> state, value |-> value, inner |-> NoPromise]
Pending(inner) == [state |-> "pending", value |-> "none", inner |-> inner]

\* a wrapper that catches what the declaration's function throws
AsyncArrowSwallows(made, beh) ==
    [threw |-> FALSE,
     promise |->
        IF made = <<>> THEN Settled("fulfilled", Undefined)
        ELSE CASE beh.kind = "return"  -> Settled("fulfilled", beh.value)
               [] beh.kind = "throw"   -> Settled("fulfilled", Undefined)
               [] beh.kind = "resolve" -> Pending([state |-> "fulfilled", value |-> beh.value])
               [] beh.kind = "reject"  -> Pending([state |-> "fulfilled", value |-> Undefined])]

\* an async arrow function whose body is the expression that made the calls
\* `made` (none: the optional chain gave undefined) and met behaviour beh:
\* the error and the result both go into the promise it returns
AsyncArrow(made, beh) ==
    [threw |-> FALSE,
     promise |->
        IF made = <<>> THEN Settled("fulfilled", Undefined)
        ELSE CASE beh.kind = "return"  -> Settled("fulfilled", beh.value)
               [] beh.kind = "throw"   -> Settled("rejected", beh.value)
               [] beh.kind = "resolve" -> Pending([state |-> "fulfilled", value |-> beh.value])
               [] beh.kind = "reject"  -> Pending([state |-> "rejected", value |-> beh.value])]

\* descriptor.factory(deps, ctx): the wrapper the builder stored there
FactoryCalls(desc, deps, ctx) ==
    IF desc.factory.wrapper = "async (deps) => c.factory(deps)"
    THEN RootFactoryWrapper(desc.factory.c, deps, ctx)
    ELSE PluginFactoryWrapper(desc.factory.c, deps, ctx)

WrapperCall(d, name, made, deps, ctx, beh) ==
    LET res == AsyncArrow(made, beh)
    IN /\ Len(promises) < MaxCalls
       /\ calls' = calls \o [i \in 1..Len(made) |->
                                made[i] @@ [desc |-> d, promise |-> Len(promises) + 1]]
       /\ syncThrow' = res.threw
       /\ promises' = Append(promises,
              res.promise @@ [desc |-> d, wrapper |-> name, deps |-> deps,
                              ctx |-> ctx, behaviour |-> beh])
       /\ UNCHANGED <<refVars, builderVars, engineVars>>

CallFactory(d, deps, ctx, beh) ==
    WrapperCall(d, "factory", FactoryCalls(descs[d], deps, ctx), deps, ctx, beh)

CallCreateRootContext(d, deps, beh) ==
    /\ "createRootContext" \in DOMAIN descs[d]
    /\ WrapperCall(d, "createRootContext",
                   CreateRootContextWrapper(descs[d].createRootContext.c, deps),
                   deps, Undefined, beh)

\* the promise the declaration's function returned settles; the wrapper's
\* promise, resolved with it, settles the same way
Settle(p) ==
    /\ promises[p].state = "pending"
    /\ promises' = [promises EXCEPT ![p].state = promises[p].inner.state,
                                    ![p].value = promises[p].inner.value]
    /\ UNCHANGED <<refVars, builderVars, calls, syncThrow, engineVars>>

----------------------------------------------------------------------------
(* The resolution engine's two-phase construction of a plugin-scoped       *)
(* service (not part of types.ts: modelled from the specification).        *)

NumPlugins == 2
Plugins == 1..NumPlugins

EngineDesc == descs[1]
EngineDeps == EmptyObject

\* a plugin asks for the service: the root context is a memoized,
\* single-flight computation keyed by the token, started by the first request
RequestInstance(p) ==
    /\ pc[p] = "idle"
    /\ IF "createRootContext" \in DOMAIN EngineDesc
       THEN /\ pc' = [pc EXCEPT ![p] = "awaitContext"]
            /\ IF rootContext = UndefinedObject
               THEN /\ calls' = calls \o CreateRootContextWrapper(
                                    EngineDesc.createRootContext.c, EngineDeps)
                    /\ rootContext' = [state |-> "pending"]
               ELSE UNCHANGED <<calls, rootContext>>
       ELSE /\ pc' = [pc EXCEPT ![p] = "construct"]
            /\ UNCHANGED <<calls, rootContext>>
    /\ UNCHANGED <<refVars, builderVars, promises, syncThrow, instances>>

\* the root-context promise is fulfilled with the declaration's value
ContextReady(v) ==
    /\ rootContext = [state |-> "pending"]
    /\ rootContext' = [state |-> "fulfilled", value |-> v]
    /\ UNCHANGED <<refVars, builderVars, callVars, pc, instances>>

\* the instance phase: factory(deps, ctx) with the shared context, or with
\* undefined when the descriptor has no root-context constructor
Construct(p) ==
    /\ \/ pc[p] = "construct"
       \/ pc[p] = "awaitContext" /\ rootContext # UndefinedObject
                                 /\ rootContext.state = "fulfilled"
    /\ LET ctx == IF pc[p] = "construct" THEN Undefined ELSE rootContext.value
           made == FactoryCalls(EngineDesc, EngineDeps, ctx)
       IN /\ calls' = calls \o made
          \* the declaration's factory returns a new object on every call
          /\ instances' = [instances EXCEPT ![p] =
                [ctx |-> ctx,
                 made |-> Len(made),
                 instance |-> Len(SelectSeq(calls \o made,
                                            LAMBDA x : x.fn = "factory"))]]
    /\ pc' = [pc EXCEPT ![p] = "done"]
    /\ UNCHANGED <<refVars, builderVars, promises, syncThrow, rootContext>>

----------------------------------------------------------------------------
(* Specifications *)

InitCalls ==
    /\ calls = <<>>
    /\ promises = <<>>
    /\ syncThrow = FALSE

InitEngineIdle ==
    /\ rootContext = UndefinedObject
    /\ pc = <<>>
    /\ instances = <<>>

InitBuilderEmpty ==
    /\ decls = <<>>
    /\ builders = <<>>
    /\ descs = <<>>
    /\ invocations = <<>>
    /\ evals = <<>>

\* tokens: creation and property reads
InitRef ==
    /\ refs = <<>>
    /\ refArgs = <<>>
    /\ lastRead = NoRead
    /\ InitBuilderEmpty
    /\ InitCalls
    /\ InitEngineIdle

NextRefCreate == \E options \in RefOptions : CreateServiceRef(options)
NextRefRead == \E r \in 1..Len(refs), field \in RefFields : ReadRef(r, field)

NextRef == NextRefCreate \/ NextRefRead

SpecRef == InitRef /\ [][NextRef]_vars

\* both shapes of one configuration: the fixed object and the function
DeclarationPair(c) ==
    <<[kind |-> "object", conf |-> c], [kind |-> "function", conf |-> c]>>

InitBaseRefs ==
    /\ refs = BaseRefs
    /\ refArgs = BaseRefArgs
    /\ lastRead = NoRead

\* the builder: createServiceFactory and the invocations of what it returns
Init ==
    /\ InitBaseRefs
    /\ decls \in {DeclarationPair(c) : c \in Configs}
    /\ builders = <<>>
    /\ descs = <<>>
    /\ invocations = <<>>
    /\ evals = <<>>
    /\ InitCalls
    /\ InitEngineIdle

NextCreateServiceFactory == \E d \in 1..Len(decls) : CreateServiceFactory(d)
NextInvoke == \E b \in 1..Len(builders), o \in Options : Invoke(b, o)

Next == NextCreateServiceFactory \/ NextInvoke

Spec == Init /\ [][Next]_vars

\* token creation interleaved with the builder, on well-formed declarations
FrameConfigs ==
    {c \in Configs : /\ {"service", "deps"} \subseteq DOMAIN c
                     /\ c.deps \in {EmptyObject, [a |-> RootRef]}
                     /\ GetStr(c, "createRootContext") # Undefined}

InitFrame ==
    /\ InitBaseRefs
    /\ decls \in {DeclarationPair(c) : c \in FrameConfigs}
    /\ builders = <<>>
    /\ descs = <<>>
    /\ invocations = <<>>
    /\ evals = <<>>
    /\ InitCalls
    /\ InitEngineIdle

NextFrame == NextRefCreate \/ NextCreateServiceFactory \/ NextInvoke

SpecFrame == InitFrame /\ [][NextFrame]_vars

\* the state after createServiceFactory(decls[d]) and one invocation of the
\* builder with no options
InitBuilt(d) ==
    /\ builders = <<createServiceFactory(d)>>
    /\ LET res == BuilderFactory(ConfigCallback(builders[1], UndefinedObject).value)
       IN /\ ~res.threw
          /\ descs = <<res.value>>
    /\ invocations = <<[builder |-> 1, options |-> UndefinedObject,
                        threw |-> FALSE, error |-> "none", desc |-> 1]>>
    /\ evals = ConfigCallback(builders[1], UndefinedObject).evals

\* calls of a descriptor's wrappers
CallConfigs ==
    {c \in Configs : /\ "service" \in DOMAIN c
                     /\ GetObj(c, "deps") = EmptyObject
                     /\ "initialization" \notin DOMAIN c}

InitCall ==
    /\ InitBaseRefs
    /\ decls \in {DeclarationPair(c) : c \in CallConfigs}
    /\ \E d \in {1, 2} : InitBuilt(d)
    /\ InitCalls
    /\ InitEngineIdle

NextCallFactory ==
    \E d \in 1..Len(descs), deps \in ResolvedDeps, ctx \in Contexts,
       beh \in Behaviours : CallFactory(d, deps, ctx, beh)
NextCallCreateRootContext ==
    \E d \in 1..Len(descs), deps \in ResolvedDeps, beh \in Behaviours :
        CallCreateRootContext(d, deps, beh)
NextSettle == \E p \in 1..Len(promises) : Settle(p)

NextCall == NextCallFactory \/ NextCallCreateRootContext \/ NextSettle

SpecCall == InitCall /\ [][NextCall]_vars

\* two-phase construction of a plugin-scoped service for several plugins
EngineConfigs ==
    {c \in Configs : /\ {"service", "deps"} \subseteq DOMAIN c
                     /\ c.service = PluginRef}

InitEngine ==
    /\ InitBaseRefs
    /\ decls \in {DeclarationPair(c) : c \in EngineConfigs}
    /\ \E d \in {1, 2} : InitBuilt(d)
    /\ InitCalls
    /\ rootContext = UndefinedObject
    /\ pc = [p \in Plugins |-> "idle"]
    /\ instances = [p \in Plugins |-> [ctx |-> "none", made |-> 0, instance |-> 0]]

NextRequestInstance == \E p \in Plugins : RequestInstance(p)
NextContextReady == \E v \in Contexts : ContextReady(v)
NextConstruct == \E p \in Plugins : Construct(p)

NextEngine == NextRequestInstance \/ NextContextReady \/ NextConstruct

SpecEngine == InitEngine /\ [][NextEngine]_vars

----------------------------------------------------------------------------
(* Properties *)

\* the configuration a declaration resolves to for the caller's options
ResolvedConfiguration(decl, o) ==
    IF decl.kind = "function" THEN OptionsFunction(decl.conf, o) ELSE decl.conf

DeclOf(inv) == decls[builders[inv.builder].decl]
ConfOf(i) == ResolvedConfiguration(DeclOf(invocations[i]), invocations[i].options)
DescOf(i) == descs[invocations[i].desc]
ScopeOf(c) == refs[c.service].scope
ReturnedInvocations == {i \in 1..Len(invocations) : ~invocations[i].threw}

\* C1: a token has the id of its options, the scope of its options or
\* 'plugin' when the options have none, and every read of T throws, after
\* any number of reads in any order.
C1_TokenFields ==
    /\ \A r \in 1..Len(refs) :
          /\ refs[r].id = refArgs[r].id
          /\ "scope" \in DOMAIN refArgs[r] => refs[r].scope = refArgs[r].scope
          /\ "scope" \notin DOMAIN refArgs[r] => refs[r].scope = "plugin"
    /\ lastRead.field = "T" => lastRead.threw
    /\ lastRead.field = "id" =>
          ~lastRead.threw /\ lastRead.value = refArgs[lastRead.ref].id
    /\ lastRead.field = "scope" =>
          /\ ~lastRead.threw
          /\ lastRead.value = IF "scope" \in DOMAIN refArgs[lastRead.ref]
                               THEN refArgs[lastRead.ref].scope ELSE "plugin"

C1_Witness ==
    /\ lastRead.n = MaxReads
    /\ lastRead.field = "T"
    /\ lastRead.threw
    /\ \E r \in 1..Len(refs) : "scope" \notin DOMAIN refArgs[r] /\ refs[r].scope = "plugin"
    /\ \E r \in 1..Len(refs) : "scope" \in DOMAIN refArgs[r] /\ refs[r].scope = "root"

\* C2: the descriptor a builder returns has the service, deps and
\* initialization of the configuration its declaration resolves to, for the
\* root and the plugin branch, the fixed and the parameterized shape; two
\* invocations that resolve to the same configuration give equal descriptors.
C2_DescriptorMatchesConfiguration ==
    /\ \A i \in ReturnedInvocations :
          /\ DescOf(i).service = ConfOf(i).service
          /\ DescOf(i).deps = GetObj(ConfOf(i), "deps")
          /\ DescOf(i).initialization = GetStr(ConfOf(i), "initialization")
    /\ \A i, j \in ReturnedInvocations :
          ConfOf(i) = ConfOf(j) => DescOf(i) = DescOf(j)

C2_Witness ==
    \E i, j \in ReturnedInvocations :
        /\ DeclOf(invocations[i]).kind = "object"
        /\ DeclOf(invocations[j]).kind = "function"
        /\ ConfOf(i) = ConfOf(j)
        /\ ScopeOf(ConfOf(i)) = "plugin"
        /\ DescOf(i) = DescOf(j)
        /\ DescOf(i).deps = [a |-> RootRef]
        /\ "initialization" \notin DOMAIN ConfOf(i)
        /\ DescOf(i).initialization = Undefined

\* C3: the declaration function is evaluated by the invocations of a
\* parameterized builder only, once for each, in their order, with the
\* options of that invocation; createServiceFactory evaluates nothing.
ParameterizedInvocations ==
    SelectSeq(invocations, LAMBDA inv : DeclOf(inv).kind = "function")

C3_DeferredEvaluation ==
    evals = [k \in 1..Len(ParameterizedInvocations) |->
                [decl |-> builders[ParameterizedInvocations[k].builder].decl,
                 options |-> ParameterizedInvocations[k].options]]

C3_Witness ==
    /\ \E b \in 1..Len(builders) : builders[b].configCallback = "options"
    /\ Len(evals) = 2
    /\ evals[1].options = [initialization |-> "always"]
    /\ evals[2].options = UndefinedObject

\* C4: an invocation whose configuration has a root-scoped service and a
\* plugin-scoped token among its deps returns no descriptor.
C4_RootWithPluginDepRejected ==
    \A i \in 1..Len(invocations) :
        (/\ {"service", "deps"} \subseteq DOMAIN ConfOf(i)
         /\ ScopeOf(ConfOf(i)) = "root"
         /\ \E n \in DOMAIN ConfOf(i).deps : refs[ConfOf(i).deps[n]].scope = "plugin")
        => invocations[i].threw

\* C5: a root-scoped descriptor has no createRootContext; a plugin-scoped
\* descriptor has one exactly when the declaration provided a root-context
\* constructor.
C5_RootContextOnlyWhenProvided ==
    \A i \in ReturnedInvocations :
        /\ ScopeOf(ConfOf(i)) = "root" => "createRootContext" \notin DOMAIN DescOf(i)
        /\ ScopeOf(ConfOf(i)) = "plugin" =>
              ("createRootContext" \in DOMAIN DescOf(i)
                  <=> GetStr(ConfOf(i), "createRootContext") = "function")

\* C6 as stated: a descriptor built from a configuration without an
\* initialization strategy carries 'always' (root) or 'lazy' (plugin).
C6_ScopeDefaultInitialization ==
    \A i \in ReturnedInvocations :
        "initialization" \notin DOMAIN ConfOf(i) =>
            DescOf(i).initialization =
                IF ScopeOf(ConfOf(i)) = "root" THEN "always" ELSE "lazy"

\* C6 as amended: a descriptor built from a configuration without an
\* initialization strategy carries undefined for it, in both scopes; the
\* root-scoped one has a root-scoped service and no createRootContext.
C6_OmittedInitializationUndefined ==
    \A i \in ReturnedInvocations :
        "initialization" \notin DOMAIN ConfOf(i) =>
            /\ DescOf(i).initialization = Undefined
            /\ ScopeOf(ConfOf(i)) = "root" =>
                  /\ refs[DescOf(i).service].scope = "root"
                  /\ "createRootContext" \notin DOMAIN DescOf(i)

C6_Witness ==
    \E i \in ReturnedInvocations :
          /\ invocations[i].options = UndefinedObject
          /\ ScopeOf(ConfOf(i)) = "root"
          /\ "initialization" \notin DOMAIN ConfOf(i)
          /\ GetObj(ConfOf(i), "deps") = EmptyObject
          /\ DescOf(i).initialization = Undefined
          /\ "createRootContext" \notin DOMAIN DescOf(i)

\* C7: an invocation whose configuration lacks service or lacks deps raises
\* an error and returns no descriptor.
C7_MalformedRejected ==
    \A i \in 1..Len(invocations) :
        ("service" \notin DOMAIN ConfOf(i) \/ "deps" \notin DOMAIN ConfOf(i))
        => invocations[i].threw

\* C8: for a plugin-scoped descriptor with a root-context constructor, however
\* the requests of the plugins interleave, the declaration's
\* createRootContext is called at most once, every instance construction
\* receives the one shared context, and the declaration's factory is called
\* once for each plugin and gives pairwise distinct instances.
RootContextCalls == SelectSeq(calls, LAMBDA x : x.fn = "createRootContext")
InstanceCalls == SelectSeq(calls, LAMBDA x : x.fn = "factory")
DonePlugins == {p \in Plugins : pc[p] = "done"}

CallsFor(p) == SelectSeq(calls, LAMBDA x : x.promise = p)
DeclarationHas(p, fn) == GetStr(descs[promises[p].desc].factory.c, fn) = "function"

IsPrefix(s, t) == Len(s) <= Len(t) /\ \A i \in 1..Len(s) : t[i] = s[i]

FrameStep ==
    /\ decls' = decls
    /\ IsPrefix(refs, refs')
    /\ IsPrefix(refArgs, refArgs')
    /\ IsPrefix(builders, builders')
    /\ IsPrefix(descs, descs')
    /\ IsPrefix(invocations, invocations')
    /\ Len(refs') + Len(builders') + Len(descs')
          <= Len(refs) + Len(builders) + Len(descs) + 1
    /\ Len(refs') > Len(refs) =>
          refs'[Len(refs')] = createServiceRef(refArgs'[Len(refs')])
    /\ Len(invocations') > Len(invocations) =>
          LET inv == invocations'[Len(invocations')]
              alone == BuilderFactory(ResolvedConfiguration(DeclOf(inv), inv.options))
          IN /\ inv.threw = alone.threw
             /\ inv.threw => descs' = descs
             /\ ~inv.threw => /\ inv.desc = Len(descs) + 1
                              /\ descs' = Append(descs, alone.value)

C10_NoSharedState == [][FrameStep]_vars

C10_Witness ==
    /\ Len(refs) = MaxRefs
    /\ \E i, j \in ReturnedInvocations :
          /\ i < j
          /\ invocations[i].builder = invocations[j].builder
          /\ invocations[i].options # invocations[j].options
          /\ DescOf(i).initialization = "always"
          /\ DescOf(j).initialization = "lazy"

====
